---- MODULE Spec2Model ----
(***************************************************************************)
(* A model of fx_env_kaustubh_mod.py: the Houdini project manager.         *)
(*                                                                         *)
(* The filesystem is a function from paths (sequences of path components)  *)
(* to nodes (a directory, a file with its content, a symbolic link with    *)
(* its target).  The os / shutil / glob calls of the script are operators  *)
(* on that function; the script's functions are operators built from them, *)
(* and the specifications below call them.                                 *)
(***************************************************************************)
EXTENDS Integers, Sequences, FiniteSets, TLC

VARIABLES
    fs,            \* the filesystem: path -> node
    atime,         \* os.path.getatime of the directories of FILES_DIR, by name
    clock,         \* datetime.now(), in whole seconds
    environ,       \* os.environ
    args,          \* the parsed command line
    pc,            \* where the main logic stands
    sel,           \* where select_project stands, and its list `projects`
    main_project,  \* project_name, the global of the main logic
    menu_project,  \* project_name, the local of interactive_mode
    shown,         \* the project list printed last
    launches,      \* the calls of launch_xterm_with_env so far
    last,          \* the last step taken: the call made, its arguments and outcome
    prev,          \* the step before it
    pre,           \* the filesystem as it was when the last step began
    snap,          \* the last call of create_backup, and the files it found
    steps          \* how many steps (or lines of input) the run has taken

vars ==
    <<fs, atime, clock, environ, args, pc, sel, main_project, menu_project, shown,
      launches, last, prev, pre, snap, steps>>

\* what the calls of one function leave alone: the program around it
program == <<atime, args, pc, sel, main_project, menu_project, shown, launches>>

----------------------------------------------------------------------------
(* Bounds of the model. *)

\* how many levels of symbolic links a path lookup follows
LinkDepth == 2

----------------------------------------------------------------------------
(* Paths and nodes. *)

FILES_DIR == <<"files">>
PROJECT_DIR == <<"work">>

\* a directory outside both roots, the target of a stale link
ELSEWHERE == <<"elsewhere">>

\* os.path.join(path, name), name without a separator: an empty name adds
\* only a trailing separator, which names the same entry
join(path, name) == IF name = "" THEN path ELSE Append(path, name)

basename(path) == path[Len(path)]

dirname(path) == SubSeq(path, 1, Len(path) - 1)

DirNode == [kind |-> "dir", data |-> "", target |-> <<>>]

FileNode(c) == [kind |-> "file", data |-> c, target |-> <<>>]

LinkNode(t) == [kind |-> "link", data |-> "", target |-> t]

----------------------------------------------------------------------------
(* os.path and os: what the script calls. *)

lexists(f, path) == path = <<>> \/ path \in DOMAIN f

islink(f, path) == path \in DOMAIN f /\ f[path].kind = "link"

RECURSIVE isdirN(_, _, _)
isdirN(f, path, k) ==
    \/ path = <<>>
    \/ /\ path \in DOMAIN f
       /\ \/ f[path].kind = "dir"
          \/ /\ f[path].kind = "link"
             /\ k > 0
             /\ isdirN(f, f[path].target, k - 1)

\* os.path.isdir follows symbolic links
isdir(f, path) == isdirN(f, path, LinkDepth)

RECURSIVE existsN(_, _, _)
existsN(f, path, k) ==
    \/ path = <<>>
    \/ /\ path \in DOMAIN f
       /\ \/ f[path].kind # "link"
          \/ /\ k > 0
             /\ existsN(f, f[path].target, k - 1)

\* os.path.exists follows symbolic links: a dangling link does not exist
exists(f, path) == existsN(f, path, LinkDepth)

\* os.mkdir: the parent must be a directory and the name free
mkdir(f, path) ==
    IF lexists(f, path) \/ ~isdir(f, dirname(path))
    THEN [fs |-> f, raised |-> TRUE]
    ELSE [fs |-> (path :> DirNode) @@ f, raised |-> FALSE]

\* os.makedirs(name), exist_ok false: the missing parents first (a
\* FileExistsError from them is swallowed), then the leaf
RECURSIVE makedirs(_, _)
makedirs(f, path) ==
    IF path = <<>>
    THEN [fs |-> f, raised |-> TRUE]
    ELSE LET head == dirname(path)
             up == IF head # <<>> /\ ~exists(f, head)
                   THEN makedirs(f, head)
                   ELSE [fs |-> f, raised |-> FALSE]
         IN  mkdir(up.fs, path)

isfile(f, path) == path \in DOMAIN f /\ f[path].kind = "file"

\* os.symlink(src, dst): dst must be free; src need not exist
symlink(f, src, dst) ==
    IF lexists(f, dst) \/ ~isdir(f, dirname(dst))
    THEN [fs |-> f, raised |-> TRUE]
    ELSE [fs |-> (dst :> LinkNode(src)) @@ f, raised |-> FALSE]

----------------------------------------------------------------------------
(* Helper functions for file and directory operations. *)

\* a run of the script's statements: the filesystem so far, whether an
\* exception is propagating, and what was reported as created
Run0(f) == [fs |-> f, raised |-> FALSE, log |-> {}]

\* ensure_directory_exists without its isdir test: makedirs on every call
ensure_directory_exists_unchecked(r, directory) ==
    IF r.raised THEN r
    ELSE LET m == makedirs(r.fs, directory)
         IN  [fs |-> m.fs, raised |-> m.raised,
              log |-> IF m.raised THEN r.log ELSE r.log \cup {directory}]

ensure_directory_exists(r, directory) ==
    IF r.raised THEN r
    ELSE IF ~isdir(r.fs, directory)
         THEN LET m == makedirs(r.fs, directory)
              IN  [fs |-> m.fs, raised |-> m.raised,
                   log |-> IF m.raised THEN r.log ELSE r.log \cup {directory}]
         ELSE r

----------------------------------------------------------------------------
(* Create directories and symlinks. *)

required_dirs == <<"HIP", "REF", "RENDER", "COMP">>

RECURSIVE ensure_required(_, _, _)
ensure_required(r, project_path, i) ==
    IF i > Len(required_dirs) THEN r
    ELSE ensure_required(
             ensure_directory_exists(r, join(project_path, required_dirs[i])),
             project_path, i + 1)

\* the symlink step of ensure_directories_and_symlinks
ensure_symlink(r, geo_dir_path_project, symlink_path) ==
    IF r.raised THEN r
    ELSE IF ~islink(r.fs, symlink_path)
         THEN LET s == symlink(r.fs, geo_dir_path_project, symlink_path)
              IN  [fs |-> s.fs, raised |-> s.raised,
                   log |-> IF s.raised THEN r.log ELSE r.log \cup {symlink_path}]
         ELSE r

ensure_directories_and_symlinks(f, project_name) ==
    LET project_path == join(FILES_DIR, project_name)
        r1 == ensure_directory_exists(Run0(f), project_path)
        r2 == ensure_required(r1, project_path, 1)
        geo_dir_path_project == join(join(PROJECT_DIR, project_name), "GEO")
        r3 == ensure_directory_exists(r2, geo_dir_path_project)
        r4 == ensure_directory_exists(r3, join(project_path, "FLIP"))
    IN  ensure_symlink(r4, geo_dir_path_project, join(project_path, "GEO"))

----------------------------------------------------------------------------
(* Backup and restore handling. *)

\* the entries a project may hold at its top level: *.hip files and others
HipNames == {"a.hip", "b.hip"}

OtherNames == {"notes.txt"}

\* fnmatch(name, '*.hip')
fnmatch_hip(name) == name \in HipNames

\* glob.glob(os.path.join(directory, '*.hip')): the entries of directory,
\* of any kind, whose name matches
glob_hip(f, directory) ==
    {path \in DOMAIN f :
        /\ Len(path) = Len(directory) + 1
        /\ dirname(path) = directory
        /\ fnmatch_hip(basename(path))}

\* shutil.copy(src, dst), dst a directory: the content of src under its own
\* name in dst, over a file of that name if there is one
copy(f, src, dst) ==
    LET to == IF isdir(f, dst) THEN join(dst, basename(src)) ELSE dst
    IN  IF ~isfile(f, src) \/ isdir(f, to) \/ ~isdir(f, dirname(to))
        THEN [fs |-> f, raised |-> TRUE]
        ELSE [fs |-> (to :> FileNode(f[src].data)) @@ f, raised |-> FALSE]

\* for file in hip_files: shutil.copy(file, dst). The loop takes the files in
\* glob's order, which is any order; `reach` are the names of the files it
\* copies before a copy fails (every name when none fails)
RECURSIVE copy_each(_, _, _)
copy_each(r, todo, dst) ==
    IF todo = {} \/ r.raised THEN r
    ELSE LET file == CHOOSE x \in todo : TRUE
             c == copy(r.fs, file, dst)
         IN  copy_each([r EXCEPT !.fs = c.fs, !.raised = c.raised],
                       todo \ {file}, dst)

copy_loop(r, hip_files, dst, reach) ==
    LET reached == {file \in hip_files : basename(file) \in reach}
        done == copy_each(r, reached, dst)
    IN  [done EXCEPT !.raised = done.raised \/ reached # hip_files]

\* backup_dir=None
None == <<"<None>">>

\* datetime.now().strftime('%Y%m%d_%H%M%S'), the clock counting the seconds
\* of one minute
strftime(now) == "20240131_23590" \o ToString(now)

NOTHING_TO_BACK_UP == "No .hip files found for backup."

NO_BACKUP_FOUND == "No backup found for the specified timestamp"

NOTHING_IN_BACKUP == "No .hip files found in the backup."

\* what a call gives back to the model: the filesystem, whether it raised,
\* the directories it reported as created, the message it ended on
Result(r, report) ==
    [fs |-> r.fs, raised |-> r.raised, log |-> r.log,
     report |-> IF r.raised THEN "raised" ELSE report]

create_backup(f, project_dir, backup_dir, now, reach) ==
    LET root == IF backup_dir = None THEN join(project_dir, "BACKUPS")
                ELSE backup_dir
        timestamp == strftime(now)
        dir == join(root, timestamp)
        r1 == ensure_directory_exists(Run0(f), dir)
        hip_files == glob_hip(r1.fs, project_dir)
    IN  IF r1.raised THEN Result(r1, "")
        ELSE IF hip_files = {} THEN Result(r1, NOTHING_TO_BACK_UP)
        ELSE Result(copy_loop(r1, hip_files, dir, reach), "Backed up")

\* restore_backup taking the *.hip files of the project, not of the snapshot
restore_backup_live(f, project_dir, timestamp, reach) ==
    LET backup_dir == join(join(project_dir, "BACKUPS"), timestamp)
        restore_dir == join(project_dir, "RESTORED_" \o timestamp)
        r1 == ensure_directory_exists(Run0(f), restore_dir)
        hip_files == glob_hip(r1.fs, project_dir)
    IN  IF ~exists(f, backup_dir) THEN Result(Run0(f), NO_BACKUP_FOUND)
        ELSE IF r1.raised THEN Result(r1, "")
        ELSE IF hip_files = {} THEN Result(r1, NOTHING_IN_BACKUP)
        ELSE Result(copy_loop(r1, hip_files, restore_dir, reach), "Restored")

\* restore_backup copying into the project directory itself
restore_backup_in_place(f, project_dir, timestamp, reach) ==
    LET backup_dir == join(join(project_dir, "BACKUPS"), timestamp)
        restore_dir == project_dir
        r1 == ensure_directory_exists(Run0(f), restore_dir)
        hip_files == glob_hip(r1.fs, backup_dir)
    IN  IF ~exists(f, backup_dir) THEN Result(Run0(f), NO_BACKUP_FOUND)
        ELSE IF r1.raised THEN Result(r1, "")
        ELSE IF hip_files = {} THEN Result(r1, NOTHING_IN_BACKUP)
        ELSE Result(copy_loop(r1, hip_files, restore_dir, reach), "Restored")

\* restore_backup making the restore directory before it looks for the
\* snapshot, as create_backup makes its directory before it looks for files
restore_backup_eager(f, project_dir, timestamp, reach) ==
    LET backup_dir == join(join(project_dir, "BACKUPS"), timestamp)
        restore_dir == join(project_dir, "RESTORED_" \o timestamp)
        r1 == ensure_directory_exists(Run0(f), restore_dir)
        hip_files == glob_hip(r1.fs, backup_dir)
    IN  IF r1.raised THEN Result(r1, "")
        ELSE IF ~exists(f, backup_dir) THEN Result(r1, NO_BACKUP_FOUND)
        ELSE IF hip_files = {} THEN Result(r1, NOTHING_IN_BACKUP)
        ELSE Result(copy_loop(r1, hip_files, restore_dir, reach), "Restored")

restore_backup(f, project_dir, timestamp, reach) ==
    LET backup_dir == join(join(project_dir, "BACKUPS"), timestamp)
        restore_dir == join(project_dir, "RESTORED_" \o timestamp)
        r1 == ensure_directory_exists(Run0(f), restore_dir)
        hip_files == glob_hip(r1.fs, backup_dir)
    IN  IF ~exists(f, backup_dir) THEN Result(Run0(f), NO_BACKUP_FOUND)
        ELSE IF r1.raised THEN Result(r1, "")
        ELSE IF hip_files = {} THEN Result(r1, NOTHING_IN_BACKUP)
        ELSE Result(copy_loop(r1, hip_files, restore_dir, reach), "Restored")

----------------------------------------------------------------------------
(* What the user types: a line read by input() is a sequence of characters. *)

DecimalDigits == <<"0", "1", "2", "3", "4", "5", "6", "7", "8", "9">>

\* a character str.isdigit() accepts and int() does not: U+00B2, the
\* superscript two
SUPERSCRIPT_TWO == "sup2"

\* str.strip(): the whitespace at both ends removed
RECURSIVE lstrip(_)
lstrip(s) == IF s # <<>> /\ Head(s) = " " THEN lstrip(Tail(s)) ELSE s

RECURSIVE rstrip(_)
rstrip(s) ==
    IF s # <<>> /\ s[Len(s)] = " " THEN rstrip(SubSeq(s, 1, Len(s) - 1)) ELSE s

strip(s) == rstrip(lstrip(s))

\* str.lower(), on the letters the inputs use
lower(s) == [i \in 1..Len(s) |-> IF s[i] = "A" THEN "a" ELSE s[i]]

\* str.isdigit(): not empty, every character a digit
isdigit(s) ==
    /\ s # <<>>
    /\ \A i \in 1..Len(s) :
          \/ \E d \in 1..10 : DecimalDigits[d] = s[i]
          \/ s[i] = SUPERSCRIPT_TWO

\* int() raises ValueError on a character that is no decimal digit
ValueError == -1

RECURSIVE int(_)
int(s) ==
    IF s = <<>> THEN 0
    ELSE LET c == s[Len(s)]
             rest == int(SubSeq(s, 1, Len(s) - 1))
         IN  IF rest = ValueError \/ ~\E d \in 1..10 : DecimalDigits[d] = c
             THEN ValueError
             ELSE 10 * rest + (CHOOSE d \in 1..10 : DecimalDigits[d] = c) - 1

\* the string a sequence of characters spells
RECURSIVE str(_)
str(s) == IF s = <<>> THEN "" ELSE Head(s) \o str(Tail(s))

\* the characters of a number's decimal form
RECURSIVE digits(_)
digits(n) ==
    IF n < 10 THEN <<DecimalDigits[n + 1]>>
    ELSE Append(digits(n \div 10), DecimalDigits[(n % 10) + 1])

----------------------------------------------------------------------------
(* Project management and selection. *)

\* line 186: the recent list shows the first 6
RecentLimit == 6

\* os.listdir(directory): the names of its entries
listdir(f, directory) ==
    {basename(path) : path \in {q \in DOMAIN f :
        Len(q) = Len(directory) + 1 /\ dirname(q) = directory}}

\* sorted(projects, key=getatime), reverse=True left out
RECURSIVE sorted_by_atime_ascending(_, _)
sorted_by_atime_ascending(projects, at) ==
    IF projects = {} THEN <<>>
    ELSE LET first == CHOOSE x \in projects : \A y \in projects : at[x] <= at[y]
         IN  <<first>> \o sorted_by_atime_ascending(projects \ {first}, at)

\* sorted(projects, key=getatime, reverse=True); the access times are distinct
RECURSIVE sorted_by_atime(_, _)
sorted_by_atime(projects, at) ==
    IF projects = {} THEN <<>>
    ELSE LET first == CHOOSE x \in projects : \A y \in projects : at[y] <= at[x]
         IN  <<first>> \o sorted_by_atime(projects \ {first}, at)

list_recent_projects(f, at, show_all) ==
    IF ~exists(f, FILES_DIR) THEN <<>>
    ELSE LET projects == {name \in listdir(f, FILES_DIR) :
                             isdir(f, join(FILES_DIR, name))}
             ordered == sorted_by_atime(projects, at)
         IN  IF projects = {} THEN <<>>
             ELSE IF ~show_all /\ Len(ordered) > RecentLimit
                  THEN SubSeq(ordered, 1, RecentLimit)
                  ELSE ordered

\* projects[int(choice)], the - 1 forgotten (the last number taking the first)
project_at_next(projects, choice) ==
    projects[IF int(choice) < Len(projects) THEN int(choice) + 1 ELSE 1]

\* projects[int(choice) - 1], the list counted from 0 in the script and from
\* 1 here
project_at(projects, choice) == projects[(int(choice) - 1) + 1]

\* what select_project makes of a choice that is not 'a': a new project, a
\* listed project, an invalid choice, or the ValueError int() raises
resolve_choice(choice, projects) ==
    IF choice = <<"0">> THEN [kind |-> "new", project |-> ""]
    ELSE IF isdigit(choice)
         THEN IF int(choice) = ValueError THEN [kind |-> "raised", project |-> ""]
              ELSE IF 1 <= int(choice) /\ int(choice) <= Len(projects)
                   THEN [kind |-> "listed", project |-> project_at(projects, choice)]
                   ELSE [kind |-> "invalid", project |-> ""]
         ELSE [kind |-> "invalid", project |-> ""]

----------------------------------------------------------------------------
(* What the model remembers of the steps it took. *)

\* None, of a Python variable
NONE == "<None>"

\* not set, of an environment variable
UNSET == "<unset>"

\* if x is not "": None taken for a project
truthy_of_none(x) == x # ""

\* if x: neither None nor the empty string
truthy(x) == x \notin {NONE, ""}

Environ0 ==
    [CURRENT_PROJECT |-> UNSET, PROJECT_NAME |-> UNSET, PROJECT_PATH |-> <<>>,
     HFS |-> UNSET]

NoCall ==
    [op |-> "none", project |-> "", stamp |-> "", root |-> None,
     outcome |-> "", log |-> {}, input |-> <<>>, current |-> UNSET,
     prompt |-> "none", listed |-> <<>>, held |-> NONE]

\* a step: what was called, on which project, timestamp and snapshots root,
\* how it ended, what it reported as created; and, as the step began,
\* CURRENT_PROJECT, the prompt that was open, the list last printed and the
\* project interactive_mode held
Call(op, project, stamp, root, outcome, log) ==
    [op |-> op, project |-> project, stamp |-> stamp, root |-> root,
     outcome |-> outcome, log |-> log, input |-> <<>>,
     current |-> environ.CURRENT_PROJECT, prompt |-> sel.at, listed |-> shown,
     held |-> menu_project]

\* a step that read a line of input
Input(op, input, project, outcome, log) ==
    [op |-> op, project |-> project, stamp |-> "", root |-> None,
     outcome |-> outcome, log |-> log, input |-> input,
     current |-> environ.CURRENT_PROJECT, prompt |-> sel.at, listed |-> shown,
     held |-> menu_project]

\* no create_backup yet
NoSnap == [stamp |-> "", project |-> "", root |-> None, outcome |-> "", files |-> <<>>]

\* the names and contents of the files glob finds in a directory
hip_contents(f, directory) ==
    [n \in {basename(path) : path \in {q \in glob_hip(f, directory) : isfile(f, q)}}
        |-> f[join(directory, n)].data]

----------------------------------------------------------------------------
(* The starting filesystems. *)

\* how many project names the user may type or find on disk
NumNames == 2

ProjectName(i) == "shot" \o ToString(i)

Names == {ProjectName(i) : i \in 1..NumNames}

\* FILES_DIR holds the script's log file from line 44 on
BaseFs ==
    (FILES_DIR :> DirNode) @@ (join(FILES_DIR, "houdini_script.log") :> FileNode(""))

Skeleton == {"HIP", "REF", "RENDER", "COMP", "FLIP"}

GeoKinds == {"absent", "dir", "file", "link", "stale", "dangling"}

WorkKinds == {"none", "root", "project", "geo", "geofile"}

\* the entries of PROJECT_DIR for project p
WorkTree(p, work) ==
    LET root == PROJECT_DIR :> DirNode
        proj == join(PROJECT_DIR, p) :> DirNode
        geo == join(join(PROJECT_DIR, p), "GEO")
    IN  CASE work = "none" -> <<>>
          [] work = "root" -> root
          [] work = "project" -> root @@ proj
          [] work = "geo" -> root @@ proj @@ (geo :> DirNode)
          [] work = "geofile" -> root @@ proj @@ (geo :> FileNode(""))

\* the GEO entry of FILES_DIR/p
GeoEntry(p, geo) ==
    LET path == join(join(FILES_DIR, p), "GEO")
    IN  CASE geo = "absent" -> <<>>
          [] geo = "dir" -> path :> DirNode
          [] geo = "file" -> path :> FileNode("")
          [] geo = "link" -> path :> LinkNode(join(join(PROJECT_DIR, p), "GEO"))
          [] geo = "stale" -> (path :> LinkNode(ELSEWHERE)) @@ (ELSEWHERE :> DirNode)
          [] geo = "dangling" -> path :> LinkNode(<<"gone">>)

\* a tree of project p: its directory, some of the skeleton, a GEO entry
ProjectTree(p, subs, hip, geo) ==
    LET path == join(FILES_DIR, p)
    IN  (path :> DirNode)
        @@ [d \in {join(path, s) : s \in subs} |-> DirNode]
        @@ (IF hip = "file" THEN join(path, "HIP") :> FileNode("") ELSE <<>>)
        @@ GeoEntry(p, geo)

ProvisionTrees(p) ==
    {BaseFs @@ WorkTree(p, work) : work \in WorkKinds}
    \cup {(join(FILES_DIR, p) :> FileNode("")) @@ BaseFs}
    \cup {ProjectTree(p, subs, hip, geo) @@ WorkTree(p, work) @@ BaseFs :
            subs \in SUBSET (Skeleton \ {"HIP"}), hip \in {"absent", "file"},
            geo \in GeoKinds, work \in WorkKinds}
    \cup {ProjectTree(p, subs \cup {"HIP"}, "absent", geo) @@ WorkTree(p, work) @@ BaseFs :
            subs \in SUBSET (Skeleton \ {"HIP"}),
            geo \in GeoKinds, work \in WorkKinds}

\* the contents a file may have: a first version and a later one
Contents == {"v1", "v2"}

\* the top level of a project: some *.hip files, each with a content
LiveSets == UNION {[D -> Contents] : D \in SUBSET HipNames}

LiveFiles(p, files) ==
    [path \in {join(join(FILES_DIR, p), n) : n \in DOMAIN files}
        |-> FileNode(files[basename(path)])]
    @@ [path \in {join(join(FILES_DIR, p), n) : n \in OtherNames} |-> FileNode("")]

\* a provisioned project
Provisioned(f, p) == ensure_directories_and_symlinks(f, p).fs

----------------------------------------------------------------------------
(* Provisioning, called on any starting tree. *)

\* the functions are called on their own: no program runs
Idle ==
    /\ atime = <<>>
    /\ args = [hversion |-> NONE, backup |-> FALSE, restore |-> NONE,
               interactive |-> FALSE, backup_dir |-> None]
    /\ pc = "idle"
    /\ sel = [at |-> "none", projects |-> <<>>]
    /\ main_project = NONE
    /\ menu_project = NONE
    /\ shown = <<>>
    /\ launches = <<>>

ProvInit ==
    /\ \E p \in Names : fs \in ProvisionTrees(p)
    /\ Idle
    /\ clock = 0
    /\ environ = Environ0
    /\ last = NoCall
    /\ prev = NoCall
    /\ pre = fs
    /\ snap = NoSnap
    /\ steps = 0

Provision(p) ==
    LET r == ensure_directories_and_symlinks(fs, p)
    IN  /\ fs' = r.fs
        /\ environ' = IF r.raised THEN environ
                      ELSE [environ EXCEPT !.PROJECT_NAME = p,
                                           !.PROJECT_PATH = join(FILES_DIR, p)]
        /\ last' = Call("provision", p, "", None,
                        IF r.raised THEN "raised" ELSE "ok", r.log)
        /\ prev' = last
        /\ pre' = fs
        /\ UNCHANGED <<clock, snap, steps, program>>

ProvNext == \E p \in Names : Provision(p)

SpecProv == ProvInit /\ [][ProvNext]_vars

----------------------------------------------------------------------------
(* Backup and restore, called on a project with any *.hip files. *)

\* the clock runs from 0 to MaxClock
MaxClock == 1

\* how many steps a run of backups, restores, edits and ticks takes
MaxSteps == 3

\* an overriding snapshots root
BACKUP_ROOT == <<"backups">>

\* what the user may type as the timestamp to restore
StampInputs == {strftime(t) : t \in 0..MaxClock} \cup {"", "latest"}

SnapInit ==
    /\ \E files \in LiveSets :
          fs = LiveFiles(ProjectName(1), files) @@ Provisioned(BaseFs, ProjectName(1))
    /\ Idle
    /\ clock = 0
    /\ environ = Environ0
    /\ last = NoCall
    /\ prev = NoCall
    /\ pre = fs
    /\ snap = NoSnap
    /\ steps = 0

Backup(p, backup_dir) ==
    LET project_dir == join(FILES_DIR, p)
    IN  \E reach \in SUBSET HipNames :
          LET r == create_backup(fs, project_dir, backup_dir, clock, reach)
          IN  /\ steps < MaxSteps
              /\ steps' = steps + 1
              /\ fs' = r.fs
              /\ last' = Call("backup", p, strftime(clock), backup_dir, r.report, r.log)
              /\ prev' = last
              /\ pre' = fs
              /\ snap' = [stamp |-> strftime(clock), project |-> p,
                          root |-> backup_dir, outcome |-> r.report,
                          files |-> hip_contents(fs, project_dir)]
              /\ UNCHANGED <<clock, environ, program>>

Restore(p, timestamp) ==
    LET project_dir == join(FILES_DIR, p)
    IN  \E reach \in SUBSET HipNames :
          LET r == restore_backup(fs, project_dir, timestamp, reach)
          IN  /\ steps < MaxSteps
              /\ steps' = steps + 1
              /\ fs' = r.fs
              /\ last' = Call("restore", p, timestamp, None, r.report, r.log)
              /\ prev' = last
              /\ pre' = fs
              /\ UNCHANGED <<clock, environ, snap, program>>

\* a second passes
Tick ==
    /\ steps < MaxSteps
    /\ clock < MaxClock
    /\ steps' = steps + 1
    /\ clock' = clock + 1
    /\ last' = Call("tick", "", "", None, "", {})
    /\ prev' = last
    /\ pre' = fs
    /\ UNCHANGED <<fs, environ, snap, program>>

\* the user saves a scene file in the project
Save(p, n, c) ==
    LET path == join(join(FILES_DIR, p), n)
    IN  /\ steps < MaxSteps
        /\ ~(path \in DOMAIN fs /\ fs[path] = FileNode(c))
        /\ steps' = steps + 1
        /\ fs' = (path :> FileNode(c)) @@ fs
        /\ last' = Call("save", p, "", None, "", {})
        /\ prev' = last
        /\ pre' = fs
        /\ UNCHANGED <<clock, environ, snap, program>>

SnapNext ==
    \/ \E root \in {None, BACKUP_ROOT} : Backup(ProjectName(1), root)
    \/ \E t \in StampInputs : Restore(ProjectName(1), t)
    \/ Tick
    \/ \E n \in HipNames, c \in Contents : Save(ProjectName(1), n, c)

SpecSnap == SnapInit /\ [][SnapNext]_vars

----------------------------------------------------------------------------
(* The program: the main logic, select_project and interactive_mode. *)

\* how many directories FILES_DIR holds as the program starts
NumExisting == 7

\* how many lines of input a run reads
MaxInputs == 5

\* line 25: the default Houdini version
HFS == "20.5.370"

\* /tmp/fx_env_xterm.env, written by launch_xterm_with_env
TEMP_ENV_FILE == <<"tmp", "fx_env_xterm.env">>

install_path(hversion) == <<"opt", "hfs" \o hversion>>

\* the project the user has worked in, in the states the starting tree may
\* be in: provisioned with two scenes, a bare directory, GEO a plain directory
StartingTrees(p) ==
    {LiveFiles(p, [n \in HipNames |-> "v1"]) @@ Provisioned(BaseFs, p),
     ProjectTree(p, {}, "absent", "absent") @@ BaseFs,
     ProjectTree(p, Skeleton, "absent", "dir") @@ WorkTree(p, "geo") @@ BaseFs}

\* the other directories of FILES_DIR, bare
OtherProjects == [path \in {join(FILES_DIR, ProjectName(i)) : i \in 2..NumExisting}
                    |-> DirNode]

\* the access times: the lower a project's number, the later its last access
AccessTimes ==
    [n \in {ProjectName(i) : i \in 1..NumExisting} |->
        NumExisting + 1 - (CHOOSE i \in 1..NumExisting : ProjectName(i) = n)]

NoArgs ==
    [hversion |-> NONE, backup |-> FALSE, restore |-> NONE, interactive |-> FALSE,
     backup_dir |-> None]

\* the command lines: -hv alone, --backup with --backup_dir, and --backup,
\* --restore and --interactive alone or --backup with one of the others
ArgSets ==
    {[NoArgs EXCEPT !.hversion = "19.5.303"],
     [NoArgs EXCEPT !.backup = TRUE, !.backup_dir = BACKUP_ROOT],
     NoArgs,
     [NoArgs EXCEPT !.backup = TRUE],
     [NoArgs EXCEPT !.restore = strftime(0)],
     [NoArgs EXCEPT !.interactive = TRUE],
     [NoArgs EXCEPT !.backup = TRUE, !.restore = strftime(0)],
     [NoArgs EXCEPT !.backup = TRUE, !.interactive = TRUE]}

Init ==
    /\ args \in ArgSets
    /\ \E tree \in StartingTrees(ProjectName(1)), installed \in BOOLEAN :
          /\ installed => args.hversion # NONE
          /\ fs = tree @@ OtherProjects @@ (<<"tmp">> :> DirNode)
                  @@ (IF installed THEN install_path("19.5.303") :> DirNode ELSE <<>>)
    /\ atime = AccessTimes
    /\ clock = 0
    /\ environ = Environ0
    /\ pc = "start"
    /\ sel = [at |-> "none", projects |-> <<>>]
    /\ main_project = NONE
    /\ menu_project = NONE
    /\ shown = <<>>
    /\ launches = <<>>
    /\ last = NoCall
    /\ prev = NoCall
    /\ pre = fs
    /\ snap = NoSnap
    /\ steps = 0

\* a step is recorded
Record(call) == last' = call /\ prev' = last /\ pre' = fs

\* select_project begins: it lists the recent projects (line 239) and prompts
EnterSelect ==
    LET projects == list_recent_projects(fs, atime, FALSE)
    IN  /\ sel' = [at |-> "prompt1", projects |-> projects]
        /\ shown' = projects

\* select_project returns project (lines 265-268) to the call that is open,
\* env being os.environ as the function has left it so far
ReturnSelect(project, env) ==
    /\ environ' = [env EXCEPT !.CURRENT_PROJECT = project]
    /\ sel' = [at |-> "none", projects |-> <<>>]
    /\ IF pc = "select"
       THEN main_project' = project /\ pc' = "selected" /\ UNCHANGED menu_project
       ELSE menu_project' = project /\ pc' = "menu" /\ UNCHANGED main_project

\* an exception no one catches ends the program with a traceback
Abort == pc' = "aborted" /\ sel' = [at |-> "none", projects |-> <<>>]

\* lines 412-419: the version override, then the first select_project
StartFound ==
    /\ pc = "start"
    /\ args.hversion # NONE => exists(fs, install_path(args.hversion))
    /\ environ' = IF args.hversion = NONE THEN environ
                  ELSE [environ EXCEPT !.HFS = "/opt/hfs" \o args.hversion]
    /\ pc' = "select"
    /\ EnterSelect
    /\ Record(Call("start", "", "", None, "found", {}))
    /\ UNCHANGED <<fs, atime, clock, args, main_project, menu_project, launches,
                   snap, steps>>

\* lines 163-165: the version is not installed: handle_error, exit(1)
StartNotFound ==
    /\ pc = "start"
    /\ args.hversion # NONE
    /\ ~exists(fs, install_path(args.hversion))
    /\ pc' = "exited"
    /\ Record(Call("start", "", "", None, "Failed to set environment", {}))
    /\ UNCHANGED <<fs, atime, clock, environ, args, sel, main_project,
                   menu_project, shown, launches, snap, steps>>

InSelect(at) == pc \in {"select", "menu_select"} /\ sel.at \in at /\ steps < MaxInputs

\* lines 244-246: 'a' at the first prompt lists all projects and prompts again
ChooseAll(input) ==
    /\ InSelect({"prompt1"})
    /\ lower(strip(input)) = <<"a">>
    /\ LET projects == list_recent_projects(fs, atime, TRUE)
       IN  sel' = [at |-> "prompt2", projects |-> projects] /\ shown' = projects
    /\ steps' = steps + 1
    /\ Record(Input("choice", input, "", "all", {}))
    /\ UNCHANGED <<fs, atime, clock, environ, args, pc, main_project,
                   menu_project, launches, snap>>

\* the choice typed at the prompt that is open
Choice(input) ==
    IF sel.at = "prompt1" /\ lower(strip(input)) = <<"a">>
    THEN [kind |-> "all", project |-> ""]
    ELSE resolve_choice(lower(strip(input)), sel.projects)

\* lines 248-249: '0' asks for the name of a new project
ChooseNew(input) ==
    /\ InSelect({"prompt1", "prompt2"})
    /\ Choice(input).kind = "new"
    /\ sel' = [sel EXCEPT !.at = "name"]
    /\ steps' = steps + 1
    /\ Record(Input("choice", input, "", "new", {}))
    /\ UNCHANGED <<fs, atime, clock, environ, args, pc, main_project,
                   menu_project, shown, launches, snap>>

\* lines 257-259, 265-268: a number of the list selects that project
ChooseListed(input) ==
    /\ InSelect({"prompt1", "prompt2"})
    /\ Choice(input).kind = "listed"
    /\ ReturnSelect(Choice(input).project, environ)
    /\ steps' = steps + 1
    /\ Record(Input("choice", input, Choice(input).project, "selected", {}))
    /\ UNCHANGED <<fs, atime, clock, args, shown, launches, snap>>

\* lines 260-262 with a bare return: handle_error, and None for the caller
ChooseInvalid_returns_none(input) ==
    /\ InSelect({"prompt1", "prompt2"})
    /\ Choice(input).kind = "invalid"
    /\ sel' = [at |-> "none", projects |-> <<>>]
    /\ IF pc = "select"
       THEN main_project' = NONE /\ pc' = "selected" /\ UNCHANGED menu_project
       ELSE menu_project' = NONE /\ pc' = "menu" /\ UNCHANGED main_project
    /\ steps' = steps + 1
    /\ Record(Input("choice", input, "", "Invalid choice.", {}))
    /\ UNCHANGED <<fs, atime, clock, environ, args, shown, launches, snap>>

\* lines 260-262: any other choice: handle_error, then select_project again
ChooseInvalid(input) ==
    /\ InSelect({"prompt1", "prompt2"})
    /\ Choice(input).kind = "invalid"
    /\ EnterSelect
    /\ steps' = steps + 1
    /\ Record(Input("choice", input, "", "Invalid choice.", {}))
    /\ UNCHANGED <<fs, atime, clock, environ, args, pc, main_project,
                   menu_project, launches, snap>>

\* line 257: int(choice) raises ValueError
ChooseRaises(input) ==
    /\ InSelect({"prompt1", "prompt2"})
    /\ Choice(input).kind = "raised"
    /\ Abort
    /\ steps' = steps + 1
    /\ Record(Input("choice", input, "", "raised", {}))
    /\ UNCHANGED <<fs, atime, clock, environ, args, main_project,
                   menu_project, shown, launches, snap>>

\* a directory made in FILES_DIR is the one accessed last
touch(at, f) ==
    LET made == {n \in listdir(f, FILES_DIR) :
                    n \notin DOMAIN at /\ isdir(f, join(FILES_DIR, n))}
        times == {at[n] : n \in DOMAIN at}
        latest == IF times = {} THEN 0
                  ELSE CHOOSE t \in times : \A u \in times : u <= t
    IN  [n \in made |-> latest + 1] @@ at

\* lines 249-253, 265-268: a name creates the project and selects it
NameGiven(input) ==
    /\ InSelect({"name"})
    /\ strip(input) # <<>>
    /\ LET r == ensure_directories_and_symlinks(fs, str(strip(input)))
       IN  /\ fs' = r.fs
           /\ atime' = touch(atime, r.fs)
           /\ Record(Input("name", input, str(strip(input)),
                           IF r.raised THEN "raised" ELSE "created", r.log))
           /\ IF r.raised
              THEN Abort /\ UNCHANGED <<environ, main_project, menu_project>>
              ELSE ReturnSelect(str(strip(input)),
                                [environ EXCEPT
                                    !.PROJECT_NAME = str(strip(input)),
                                    !.PROJECT_PATH = join(FILES_DIR, str(strip(input)))])
    /\ steps' = steps + 1
    /\ UNCHANGED <<clock, args, shown, launches, snap>>

\* lines 254-256: an empty name: handle_error, then select_project again
NameEmpty(input) ==
    /\ InSelect({"name"})
    /\ strip(input) = <<>>
    /\ EnterSelect
    /\ steps' = steps + 1
    /\ Record(Input("name", input, "", "Invalid project name.", {}))
    /\ UNCHANGED <<fs, atime, clock, environ, args, pc, main_project,
                   menu_project, launches, snap>>

\* the snapshot a call of create_backup leaves for the model to remember
Snapshot(p, backup_dir, r) ==
    [stamp |-> strftime(clock), project |-> p, root |-> backup_dir,
     outcome |-> r.report, files |-> hip_contents(fs, join(FILES_DIR, p))]

\* line 433 or 439: interactive_mode if asked for, else the launch; a
\* traceback if the call before raised
Proceed(raised) ==
    pc' = IF raised THEN "aborted"
          ELSE IF args.interactive THEN "menu" ELSE "launch"

\* lines 420-427: --backup
SelectedBackup ==
    /\ pc = "selected"
    /\ args.backup
    /\ \E reach \in SUBSET HipNames :
          LET r == create_backup(fs, join(FILES_DIR, main_project), None, clock, reach)
          IN  /\ fs' = r.fs
              /\ atime' = touch(atime, r.fs)
              /\ snap' = Snapshot(main_project, None, r)
              /\ Record(Call("backup", main_project, strftime(clock), None,
                             r.report, r.log))
              /\ Proceed(r.raised)
    /\ UNCHANGED <<clock, environ, args, sel, main_project, menu_project,
                   shown, launches, steps>>

\* lines 428-429: --restore
SelectedRestore ==
    /\ pc = "selected"
    /\ ~args.backup
    /\ truthy(args.restore)
    /\ \E reach \in SUBSET HipNames :
          LET r == restore_backup(fs, join(FILES_DIR, main_project), args.restore, reach)
          IN  /\ fs' = r.fs
              /\ Record(Call("restore", main_project, args.restore, None,
                             r.report, r.log))
              /\ Proceed(r.raised)
    /\ UNCHANGED <<atime, clock, environ, args, sel, main_project, menu_project,
                   shown, launches, snap, steps>>

\* neither
SelectedPlain ==
    /\ pc = "selected"
    /\ ~args.backup
    /\ ~truthy(args.restore)
    /\ Record(Call("selected", main_project, "", None, "", {}))
    /\ Proceed(FALSE)
    /\ UNCHANGED <<fs, atime, clock, environ, args, sel, main_project,
                   menu_project, shown, launches, snap, steps>>

InMenu == pc = "menu" /\ steps < MaxInputs

\* lines 346-348: 1, select or create a project
MenuSelect(choice) ==
    /\ InMenu
    /\ choice = <<"1">>
    /\ pc' = "menu_select"
    /\ EnterSelect
    /\ steps' = steps + 1
    /\ Record(Input("menu", choice, "", "select", {}))
    /\ UNCHANGED <<fs, atime, clock, environ, args, main_project, menu_project,
                   launches, snap>>

\* lines 349-351: 2, create a backup of the selected project
MenuBackup(choice) ==
    /\ InMenu
    /\ choice = <<"2">>
    /\ truthy(menu_project)
    /\ \E reach \in SUBSET HipNames :
          LET r == create_backup(fs, join(FILES_DIR, menu_project), None, clock, reach)
          IN  /\ fs' = r.fs
              /\ atime' = touch(atime, r.fs)
              /\ snap' = Snapshot(menu_project, None, r)
              /\ Record([Call("backup", menu_project, strftime(clock), None,
                              r.report, r.log) EXCEPT !.input = choice])
              /\ pc' = IF r.raised THEN "aborted" ELSE "menu"
    /\ steps' = steps + 1
    /\ UNCHANGED <<clock, environ, args, sel, main_project, menu_project,
                   shown, launches>>

\* lines 354-357: 3, restore the backup whose timestamp the user types
MenuRestore(choice, timestamp) ==
    /\ InMenu
    /\ choice = <<"3">>
    /\ truthy(menu_project)
    /\ \E reach \in SUBSET HipNames :
          LET r == restore_backup(fs, join(FILES_DIR, menu_project), timestamp, reach)
          IN  /\ fs' = r.fs
              /\ Record([Call("restore", menu_project, timestamp, None,
                              r.report, r.log) EXCEPT !.input = choice])
              /\ pc' = IF r.raised THEN "aborted" ELSE "menu"
    /\ steps' = steps + 1
    /\ UNCHANGED <<atime, clock, environ, args, sel, main_project, menu_project,
                   shown, launches, snap>>

\* lines 352-353, 358-359: 2 or 3 with no project selected
MenuNoProject(choice) ==
    /\ InMenu
    /\ choice \in {<<"2">>, <<"3">>}
    /\ ~truthy(menu_project)
    /\ steps' = steps + 1
    /\ Record(Input("menu", choice, "", "No project selected.", {}))
    /\ UNCHANGED <<fs, atime, clock, environ, args, pc, sel, main_project,
                   menu_project, shown, launches, snap>>

\* lines 363-364: anything else
MenuInvalid(choice) ==
    /\ InMenu
    /\ choice \notin {<<"1">>, <<"2">>, <<"3">>, <<"4">>}
    /\ steps' = steps + 1
    /\ Record(Input("menu", choice, "", "Invalid choice, please try again.", {}))
    /\ UNCHANGED <<fs, atime, clock, environ, args, pc, sel, main_project,
                   menu_project, shown, launches, snap>>

\* launch_xterm_with_env(project_name, hfs_version): the environment file is
\* written, the terminal started
launch_xterm_with_env(f, project, hfs_version) ==
    (TEMP_ENV_FILE :> FileNode(project \o " " \o hfs_version)) @@ f

\* the launch made for the project of the main logic, whoever asks
Launched_for_main(project, from) ==
    [project |-> main_project, current |-> environ.CURRENT_PROJECT, from |-> from]

Launched(project, from) ==
    [project |-> project, current |-> environ.CURRENT_PROJECT, from |-> from]

\* lines 360-371: 4 leaves the loop; the terminal is launched for the selected
\* project, or a warning printed
MenuExit(choice) ==
    /\ InMenu
    /\ choice = <<"4">>
    /\ IF truthy(menu_project)
       THEN /\ fs' = launch_xterm_with_env(fs, menu_project, HFS)
            /\ launches' = Append(launches, Launched(menu_project, "interactive_mode"))
            /\ Record(Input("menu", choice, menu_project, "Launched xterm", {}))
       ELSE /\ UNCHANGED <<fs, launches>>
            /\ Record(Input("menu", choice, "",
                            "No project selected. Cannot launch xterm.", {}))
    /\ pc' = "launch"
    /\ steps' = steps + 1
    /\ UNCHANGED <<atime, clock, environ, args, sel, main_project, menu_project,
                   shown, snap>>

\* lines 436-439: the main logic launches the terminal
Launch ==
    /\ pc = "launch"
    /\ fs' = launch_xterm_with_env(fs, main_project, HFS)
    /\ launches' = Append(launches, Launched(main_project, "main"))
    /\ pc' = "done"
    /\ Record(Call("launch", main_project, "", None, "Launched xterm", {}))
    /\ UNCHANGED <<atime, clock, environ, args, sel, main_project, menu_project,
                   shown, snap, steps>>

\* a second passes while the program waits for input
Wait ==
    /\ pc \in {"select", "menu_select", "menu"}
    /\ clock < MaxClock
    /\ clock' = clock + 1
    /\ Record(Call("tick", "", "", None, "", {}))
    /\ UNCHANGED <<fs, atime, environ, args, pc, sel, main_project, menu_project,
                   shown, launches, snap, steps>>

\* what the user may type at the selection prompts: a, 0, the first and the
\* second project, the one past the recent list, and a digit that is no number
ChoiceInputs ==
    {<<"A">>, <<"0">>, <<"1">>, <<"2">>,
     <<" ">> \o digits(RecentLimit + 1) \o <<" ">>, <<SUPERSCRIPT_TWO>>}

\* the names the user may type for a new project: a blank, the project that
\* exists, a new one
NameInputs == {<<" ">>, <<"s", "h", "o", "t", "1">>, <<" ", "f", "x", " ">>}

\* the timestamps the user may type at the menu
MenuStamps == {strftime(t) : t \in 0..MaxClock} \cup {"latest"}

MenuInputs == {<<"1">>, <<"2">>, <<"3">>, <<"4">>, <<"x">>}

Next ==
    \/ StartFound
    \/ StartNotFound
    \/ \E input \in ChoiceInputs :
          \/ ChooseAll(input)
          \/ ChooseNew(input)
          \/ ChooseListed(input)
          \/ ChooseInvalid(input)
          \/ ChooseRaises(input)
    \/ \E input \in NameInputs : NameGiven(input) \/ NameEmpty(input)
    \/ SelectedBackup
    \/ SelectedRestore
    \/ SelectedPlain
    \/ \E choice \in MenuInputs :
          \/ MenuSelect(choice)
          \/ MenuBackup(choice)
          \/ \E timestamp \in MenuStamps : MenuRestore(choice, timestamp)
          \/ MenuNoProject(choice)
          \/ MenuInvalid(choice)
          \/ MenuExit(choice)
    \/ Launch
    \/ Wait

Spec == Init /\ [][Next]_vars

----------------------------------------------------------------------------
(* list_recent_projects, called on any set of projects in any order of access. *)

\* how many times a project is accessed between two listings
MaxAccesses == 2

\* FILES_DIR holding the first k projects, or all of them but the second
ListTrees ==
    {BaseFs @@ [path \in {join(FILES_DIR, ProjectName(i)) : i \in 1..k} |-> DirNode] :
        k \in 0..NumExisting}
    \cup {BaseFs @@ [path \in {join(FILES_DIR, ProjectName(i)) :
                                 i \in (1..NumExisting) \ {2}} |-> DirNode]}

ListInit ==
    /\ fs \in ListTrees
    /\ atime = AccessTimes
    /\ args = NoArgs
    /\ pc = "idle"
    /\ sel = [at |-> "none", projects |-> <<>>]
    /\ main_project = NONE
    /\ menu_project = NONE
    /\ shown = <<>>
    /\ launches = <<>>
    /\ clock = 0
    /\ environ = Environ0
    /\ last = NoCall
    /\ prev = NoCall
    /\ pre = fs
    /\ snap = NoSnap
    /\ steps = 0

\* list_recent_projects(show_all): what it returns is what it printed
ListRecent(show_all) ==
    /\ shown' = list_recent_projects(fs, atime, show_all)
    /\ Record(Call("list", "", "", None, IF show_all THEN "all" ELSE "recent", {}))
    /\ UNCHANGED <<fs, atime, clock, environ, args, pc, sel, main_project,
                   menu_project, launches, snap, steps>>

\* a project directory is accessed: it is now the one accessed last
Access(name) ==
    /\ steps < MaxAccesses
    /\ isdir(fs, join(FILES_DIR, name))
    /\ steps' = steps + 1
    /\ atime' = [atime EXCEPT ![name] =
                    1 + (CHOOSE t \in {atime[n] : n \in DOMAIN atime} :
                            \A n \in DOMAIN atime : atime[n] <= t)]
    /\ Record(Call("access", name, "", None, "", {}))
    /\ UNCHANGED <<fs, clock, environ, args, pc, sel, main_project, menu_project,
                   shown, launches, snap>>

ListNext ==
    \/ \E show_all \in BOOLEAN : ListRecent(show_all)
    \/ \E name \in DOMAIN AccessTimes : Access(name)

SpecList == ListInit /\ [][ListNext]_vars

----------------------------------------------------------------------------
(* Claims about provisioning. *)

GeoLink(p) == join(join(FILES_DIR, p), "GEO")

GeoTarget(p) == join(join(PROJECT_DIR, p), "GEO")

\* C1: provisioning is idempotent. When a call of
\* ensure_directories_and_symlinks(p) has completed, the next call on the same
\* p completes too, reports nothing created and leaves the filesystem exactly
\* as the first call left it.
C1_Idempotent ==
    (/\ last.op = "provision"
     /\ prev.op = "provision"
     /\ prev.outcome = "ok"
     /\ prev.project = last.project)
    => /\ last.outcome = "ok"
       /\ last.log = {}
       /\ fs = pre

\* a second call on a project whose first call completed and created entries
C1_Witness ==
    /\ last.op = "provision"
    /\ prev.op = "provision"
    /\ prev.outcome = "ok"
    /\ prev.project = last.project
    /\ Cardinality(prev.log) >= 3

\* C2: whenever ensure_directories_and_symlinks(p) completes, FILES_DIR/p/GEO
\* is a symbolic link whose target is PROJECT_DIR/p/GEO.
C2_GeoIsLinkToProjectGeo ==
    (last.op = "provision" /\ last.outcome = "ok")
    => /\ islink(fs, GeoLink(last.project))
       /\ fs[GeoLink(last.project)].target = GeoTarget(last.project)

----------------------------------------------------------------------------
(* Claims about backup and restore. *)

ProjectDir(p) == join(FILES_DIR, p)

\* the snapshot directory a call of create_backup or restore_backup names
SnapshotDir(call) ==
    join(IF call.root = None THEN join(ProjectDir(call.project), "BACKUPS")
         ELSE call.root,
         call.stamp)

RestoreDir(call) == join(ProjectDir(call.project), "RESTORED_" \o call.stamp)

\* path is dir or lies below it
Under(dir, path) == Len(path) >= Len(dir) /\ SubSeq(path, 1, Len(dir)) = dir

\* C3: when create_backup is called on a project directory with no top-level
\* *.hip file, it reports that there is nothing to back up and the filesystem
\* holds no new snapshot directory afterwards.
C3_EmptyBackupCreatesNothing ==
    (last.op = "backup" /\ glob_hip(pre, ProjectDir(last.project)) = {})
    => /\ last.outcome = NOTHING_TO_BACK_UP
       /\ (SnapshotDir(last) \in DOMAIN fs => SnapshotDir(last) \in DOMAIN pre)

\* C4: round trip. When restore_backup completes for the timestamp of the last
\* create_backup of that project (a completed call, under the default root),
\* RESTORED_<timestamp> is a directory holding every *.hip file that backup
\* found, each with the content it had when the backup was taken.
C4_RoundTrip ==
    (/\ last.op = "restore"
     /\ last.outcome # "raised"
     /\ snap.outcome \notin {"", "raised"}
     /\ snap.root = None
     /\ snap.project = last.project
     /\ snap.stamp = last.stamp)
    => /\ isdir(fs, RestoreDir(last))
       /\ \A n \in DOMAIN snap.files :
             /\ isfile(fs, join(RestoreDir(last), n))
             /\ fs[join(RestoreDir(last), n)].data = snap.files[n]

\* a restore of a backup of two files, one of them saved again since
C4_Witness ==
    /\ last.op = "restore"
    /\ last.outcome = "Restored"
    /\ snap.outcome = "Backed up"
    /\ snap.root = None
    /\ snap.project = last.project
    /\ snap.stamp = last.stamp
    /\ DOMAIN snap.files = HipNames
    /\ \E n \in HipNames :
          fs[join(ProjectDir(last.project), n)].data # snap.files[n]

\* C5: when create_backup is called while the snapshot directory of the
\* timestamp it computes exists already, the files stored in that snapshot
\* keep their content and the call reports a collision.
C5_CollisionKeepsSnapshot ==
    (last.op = "backup" /\ lexists(pre, SnapshotDir(last)))
    => /\ last.outcome = "collision"
       /\ \A path \in DOMAIN pre :
             Under(SnapshotDir(last), path)
             => path \in DOMAIN fs /\ fs[path] = pre[path]

\* C6: restore frame. A call of restore_backup(project, timestamp) changes
\* nothing outside RESTORED_<timestamp> of that project: every other entry
\* of the filesystem (the snapshot, the live files) is as it was, for every
\* outcome of the call.
C6_RestoreFrame ==
    last.op = "restore"
    => \A path \in DOMAIN fs \cup DOMAIN pre :
          ~Under(RestoreDir(last), path)
          => path \in DOMAIN fs /\ path \in DOMAIN pre /\ fs[path] = pre[path]

\* a restore that copied files, the live files differing from the snapshot
C6_Witness ==
    /\ last.op = "restore"
    /\ last.outcome = "Restored"
    /\ fs # pre
    /\ \E n \in HipNames :
          /\ isfile(fs, join(ProjectDir(last.project), n))
          /\ isfile(fs, join(SnapshotDir(last), n))
          /\ fs[join(ProjectDir(last.project), n)] # fs[join(SnapshotDir(last), n)]

\* C7: when restore_backup is called with a timestamp whose snapshot
\* directory does not exist, it reports that no backup was found and the
\* filesystem is unchanged: nothing copied, no RESTORED_<timestamp> created.
C7_NotFound ==
    (last.op = "restore" /\ ~exists(pre, SnapshotDir(last)))
    => /\ last.outcome = NO_BACKUP_FOUND
       /\ fs = pre

\* a restore of a timestamp with no snapshot, in a project that has another
C7_Witness ==
    /\ last.op = "restore"
    /\ ~exists(pre, SnapshotDir(last))
    /\ ~lexists(fs, RestoreDir(last))
    /\ \E t \in 0..MaxClock :
          isdir(pre, join(join(ProjectDir(last.project), "BACKUPS"), strftime(t)))

----------------------------------------------------------------------------
(* Claims about the selection of a project. *)

\* the line typed is the number i, written in decimal
IsIndex(input, i) == lower(strip(input)) = digits(i)

\* the line typed at a selection prompt is a selection: 0, or the number of
\* an entry of the list on display (or a, where a asks for the full list)
IsSelection(call) ==
    \/ lower(strip(call.input)) = <<"0">>
    \/ \E i \in 1..Len(call.listed) : IsIndex(call.input, i)
    \/ call.prompt = "prompt1" /\ lower(strip(call.input)) = <<"a">>

\* C8: when the project being provisioned has a GEO entry that is no symbolic
\* link (a plain directory or file), provisioning ends with a conflict
\* reported to the caller, the entry is left as it was, and the process is
\* not aborted.
C8_ConflictIsReported ==
    (/\ last.op = "name"
     /\ strip(last.input) # <<>>
     /\ lexists(pre, GeoLink(str(strip(last.input))))
     /\ ~islink(pre, GeoLink(str(strip(last.input)))))
    => /\ last.outcome = "conflict"
       /\ fs[GeoLink(str(strip(last.input)))] = pre[GeoLink(str(strip(last.input)))]
       /\ pc # "aborted"

\* C9: a line typed at a selection prompt that is neither 0 nor the number of
\* a listed project, and a new-project name that is empty once trimmed, make
\* the selection prompt repeat, with CURRENT_PROJECT and the filesystem as
\* they were.
C9_InvalidSelectionRepeats ==
    (\/ last.op = "choice" /\ ~IsSelection(last)
     \/ last.op = "name" /\ strip(last.input) = <<>>)
    => /\ pc \in {"select", "menu_select"}
       /\ sel.at = "prompt1"
       /\ environ.CURRENT_PROJECT = last.current
       /\ fs = pre

\* select_project has just returned: the call that was open is over
Returned ==
    /\ last.op \in {"choice", "name"}
    /\ pc \in {"selected", "menu"}

\* what it returned, as its caller holds it
ReturnedProject == IF pc = "selected" THEN main_project ELSE menu_project

\* C10: when select_project returns after the user typed a number i, the
\* project returned is the i-th entry (from 1) of the list displayed last;
\* and whenever it returns, CURRENT_PROJECT is the project returned.
C10_SelectionResolves ==
    Returned
    => /\ environ.CURRENT_PROJECT = ReturnedProject
       /\ last.op = "choice"
          => \E i \in 1..Len(last.listed) :
                /\ IsIndex(last.input, i)
                /\ ReturnedProject = last.listed[i]

\* a return on a number past the recent list, typed after a
C10_Witness ==
    /\ Returned
    /\ last.op = "choice"
    /\ last.prompt = "prompt2"
    /\ IsIndex(last.input, RecentLimit + 1)
    /\ Len(last.listed) > RecentLimit

\* the tree of a project: the five directories and the GEO link
HasTree(f, p) ==
    /\ \A d \in Skeleton : isdir(f, join(ProjectDir(p), d))
    /\ islink(f, GeoLink(p))

\* C12: whenever select_project has returned a project, chosen by its number
\* or created, the tree of that project exists: HIP, REF, RENDER, COMP and
\* FLIP are directories and GEO is a symbolic link.
C12_ResolvedHasTree == Returned => HasTree(fs, ReturnedProject)

\* a line typed at the menu of interactive_mode
AtMenu(call) == call.op \in {"menu", "backup", "restore"} /\ call.input # <<>>

\* C13: in interactive_mode, 2 (create backup) or 3 (restore backup) typed
\* while no project is selected reports an error, changes nothing in the
\* filesystem, leaves interactive_mode without a project, and the menu is
\* shown again.
C13_NoProjectNoSnapshot ==
    (AtMenu(last) /\ last.input \in {<<"2">>, <<"3">>} /\ last.held = NONE)
    => /\ last.outcome = "No project selected."
       /\ fs = pre
       /\ menu_project = NONE
       /\ pc = "menu"

\* 2 or 3 typed at the menu with no project selected there, the main logic
\* having selected one that has a scene to back up
C13_Witness ==
    /\ AtMenu(last)
    /\ last.input \in {<<"2">>, <<"3">>}
    /\ last.held = NONE
    /\ truthy(main_project)
    /\ glob_hip(fs, ProjectDir(main_project)) # {}

\* C14: when 4 (exit) is typed at the menu, interactive_mode launches the
\* terminal once, for the project it holds, if it holds one; and launches
\* nothing and prints a warning if it holds none.
C14_ExitHandsOff ==
    (AtMenu(last) /\ last.input = <<"4">>)
    => IF last.held # NONE
       THEN /\ Len(launches) = 1
            /\ launches[1].project = last.held
            /\ launches[1].from = "interactive_mode"
            /\ fs[TEMP_ENV_FILE] = FileNode(last.held \o " " \o HFS)
       ELSE /\ launches = <<>>
            /\ fs = pre
            /\ last.outcome = "No project selected. Cannot launch xterm."

\* exit with a project selected at the menu that is not the one the main
\* logic selected
C14_Witness ==
    /\ AtMenu(last)
    /\ last.input = <<"4">>
    /\ last.held # NONE
    /\ last.held # main_project
    /\ Len(launches) = 1

\* C15: the snapshots root is the overriding root when one is given: a
\* backup made while --backup_dir names a root R puts its snapshot at
\* R/<timestamp>, and not under the BACKUPS of the project.
C15_OverrideIsUsed ==
    (last.op = "backup" /\ args.backup_dir # None)
    => /\ exists(fs, join(args.backup_dir, last.stamp))
       /\ ~exists(fs, join(join(ProjectDir(last.project), "BACKUPS"), last.stamp))

\* C16: when the version asked for has no install path, that is reported and
\* the program goes on: the process is not ended.
C16_VersionNotFoundGoesOn ==
    (/\ last.op = "start"
     /\ args.hversion # NONE
     /\ ~exists(pre, install_path(args.hversion)))
    => pc \notin {"exited", "aborted"}

\* the directory a backup or a restore copies into
CopyDir(call) == IF call.op = "backup" THEN SnapshotDir(call) ELSE RestoreDir(call)

\* the directory it copies from
SourceDir(call) ==
    IF call.op = "backup" THEN ProjectDir(call.project) ELSE SnapshotDir(call)

\* the call found files, made its directory and a copy failed
CopyFailed(call) ==
    /\ call.op \in {"backup", "restore"}
    /\ call.outcome = "raised"
    /\ isdir(pre, SourceDir(call))
    /\ isdir(fs, CopyDir(call))

\* C17: when a copy fails part way through a backup or a restore, the files
\* copied so far stay in the destination, and the operation ends with a
\* report of a partial failure: the process is not aborted.
C17_PartialFailureReported ==
    CopyFailed(last)
    => /\ \A path \in glob_hip(fs, CopyDir(last)) :
             path \in DOMAIN pre
             \/ fs[path] = pre[join(SourceDir(last), basename(path))]
       /\ pc # "aborted"

\* C18: every launch_xterm_with_env is made for the project that
\* CURRENT_PROJECT names as the launch is made.
C18_LaunchIsForCurrent ==
    \A i \in 1..Len(launches) : launches[i].project = launches[i].current

\* C19: in a run that reaches its end, launch_xterm_with_env is called no
\* more than once.
C19_OneLaunch == pc = "done" => Len(launches) <= 1

\* C20: once interactive_mode holds a project, no choice at the menu or at
\* the selection prompts takes it back to holding none, and the project held
\* is never the empty name.
C20_SelectionIsKept ==
    [][/\ menu_project # NONE => menu_project' # NONE
       /\ menu_project' # ""]_vars

\* a project held, and another selected in its place
C20_Witness ==
    /\ Returned
    /\ pc = "menu"
    /\ last.held # NONE
    /\ menu_project # last.held

----------------------------------------------------------------------------
(* Claims about the listing of projects. *)

\* the immediate subdirectories of FILES_DIR
ProjectDirs(f) == {n \in listdir(f, FILES_DIR) : isdir(f, join(FILES_DIR, n))}

\* C11: list_recent_projects returns the subdirectories of FILES_DIR ordered
\* by last-access time, latest first: all of them with show_all, the first 6
\* of that order (all, when there are no more than 6) without.
C11_RecentFirst ==
    last.op = "list"
    => /\ \A i \in 1..Len(shown) : shown[i] \in ProjectDirs(fs)
       /\ \A i, j \in 1..Len(shown) :
             i < j => atime[shown[i]] > atime[shown[j]]
       /\ \A n \in ProjectDirs(fs) :
             (\A i \in 1..Len(shown) : shown[i] # n)
             => \A i \in 1..Len(shown) : atime[shown[i]] > atime[n]
       /\ Len(shown) = IF last.outcome = "recent"
                          /\ Cardinality(ProjectDirs(fs)) > RecentLimit
                       THEN RecentLimit
                       ELSE Cardinality(ProjectDirs(fs))

\* a listing of the recent ones among more than 6, a project accessed since
\* the start being first and a recent one of the start left out
C11_Witness ==
    /\ last.op = "list"
    /\ last.outcome = "recent"
    /\ Cardinality(ProjectDirs(fs)) > RecentLimit
    /\ Len(shown) = RecentLimit
    /\ shown[1] # ProjectName(1)
    /\ \A i \in 1..Len(shown) : shown[i] # ProjectName(RecentLimit)

====
